---- MODULE Spec2Model ----
(***************************************************************************)
(* Request routing and cost governance of the FURG backend:                *)
(*   rate_limiter.py            per-user rate window, daily ceilings,      *)
(*                              usage tracker, cost of a call              *)
(*   services/model_router.py   intent -> model table, route, cost rows    *)
(*   services/chat_v2.py        one chat request end to end                *)
(*   services/context_cache.py  TTL cache and the context builder          *)
(*   services/gemini_service.py remote intent classifier                   *)
(*   services/grok_service.py   roast adapter                              *)
(*                                                                         *)
(* Units.  Time is in whole seconds.  Token counts are plain integers; the *)
(* replies the model draws are multiples of 1000 tokens, prices are in     *)
(* milli-dollars per million tokens and costs in micro-dollars, so that     *)
(* (tokens / 1_000_000) * price is exact integer arithmetic.               *)
(***************************************************************************)
EXTENDS Integers, Sequences, FiniteSets, TLC

VARIABLES
    now,            \* time.time() / datetime.now(), seconds
    user_requests,  \* rate_limiter.user_requests: user -> list of timestamps
    admitted,       \* history: user -> arrival times of the admitted checks
    lastCheck,      \* history: the last rate_limit_check made and its result
    api_usage,      \* the api_usage table (the ledger), rows in insertion order
    profile,        \* the user_profiles table: user -> intensity_mode
    redis_client,   \* ContextCache.redis_client is set (connect() succeeded)
    redis_store,    \* the keys held by the Redis server
    memory_cache,   \* ContextCache._memory_cache: key -> (value, expiry)
    lastGet,        \* history: the _get just made and what it found and returned
    written,        \* history: key -> what the last _set not yet deleted stored
    req,            \* the chat requests in flight, one per worker
    call            \* a call of a function of rate_limiter.py: arguments, result

rateVars == <<user_requests, admitted, lastCheck>>

cacheVars == <<redis_client, redis_store, memory_cache, lastGet, written>>

vars == <<now, user_requests, admitted, lastCheck, api_usage, profile,
          redis_client, redis_store, memory_cache, lastGet, written, req, call>>

NoCall == [pc |-> "none"]

Users == {"u1", "u2"}

Workers == {"w1", "w2"}

None == "None"

----------------------------------------------------------------------------
(* rate_limiter.py: limits *)

MAX_REQUESTS_PER_MINUTE == 10

WINDOW_SECONDS == 60

\* 100000 tokens per day
MAX_TOKENS_PER_DAY == 100000

\* 5.0 dollars per day, in micro-dollars
MAX_COST_PER_DAY == 5000000

(* bounds of the rate specification *)
MaxTime == 90

MaxAdmitted == 12

TickSteps == {WINDOW_SECONDS \div 2}

----------------------------------------------------------------------------
(* rate_limiter.py: rate_limit_check *)

CleanOldKeepsBoundary(requests, t) ==
    SelectSeq(requests, LAMBDA x : x >= t - WINDOW_SECONDS)

\* requests = [t for t in requests if t > minute_ago]
CleanOld(requests, t) == SelectSeq(requests, LAMBDA x : x > t - WINDOW_SECONDS)

OverLimitStrict(requests) == Len(requests) > MAX_REQUESTS_PER_MINUTE

\* if len(requests) >= MAX_REQUESTS_PER_MINUTE: raise HTTPException(429)
OverLimit(requests) == Len(requests) >= MAX_REQUESTS_PER_MINUTE

\* the list stored for the user once rate_limit_check has run at time t:
\* the cleaned list is stored before the length check, the arrival time is
\* appended only when the check passes
WindowAfterCheck(requests, t) ==
    LET cleaned == CleanOld(requests, t)
    IN  IF OverLimit(cleaned) THEN cleaned ELSE Append(cleaned, t)

RateRefuses(requests, t) == OverLimit(CleanOld(requests, t))

\* rate_limit_check(u): its effect on user_requests (it makes no await, so it
\* runs as one step of the event loop)
rate_limit_check(u) ==
    user_requests' = [user_requests EXCEPT ![u] = WindowAfterCheck(@, now)]

----------------------------------------------------------------------------
(* database.py: the api_usage table; rate_limiter.py: cost of a call *)

RECURSIVE SumField(_, _, _)
SumField(rows, u, f) ==
    IF rows = <<>> THEN 0
    ELSE (IF Head(rows).user_id = u THEN Head(rows)[f] ELSE 0)
         + SumField(Tail(rows), u, f)

\* SELECT COUNT(*), SUM(input_tokens), SUM(output_tokens), SUM(cost)
\*   FROM api_usage WHERE user_id = $1 AND created_at >= CURRENT_DATE
\* (the model stays within one day)
get_user_api_usage_today(rows, u) ==
    [input_tokens  |-> SumField(rows, u, "input_tokens"),
     output_tokens |-> SumField(rows, u, "output_tokens"),
     total_cost    |-> SumField(rows, u, "cost")]

\* (input_tokens / 1_000_000) * 3.0 + (output_tokens / 1_000_000) * 15.0
calculate_cost(input_tokens, output_tokens) ==
    (input_tokens \div 1000) * 3000 + (output_tokens \div 1000) * 15000

token_limit_verdict_CostFirst(usage) ==
    LET total_tokens == usage.input_tokens + usage.output_tokens
        total_cost   == usage.total_cost
    IN  IF total_cost >= MAX_COST_PER_DAY THEN "cost"
        ELSE IF total_tokens >= MAX_TOKENS_PER_DAY THEN "token"
        ELSE "pass"

\* the verdict of token_limit_check on today's usage: tokens first, then cost
token_limit_verdict(usage) ==
    LET total_tokens == usage.input_tokens + usage.output_tokens
        total_cost   == usage.total_cost
    IN  IF total_tokens >= MAX_TOKENS_PER_DAY THEN "token"
        ELSE IF total_cost >= MAX_COST_PER_DAY THEN "cost"
        ELSE "pass"

----------------------------------------------------------------------------
(* services/gemini_service.py, services/model_router.py: intents and models *)

Intents == {"roast", "advice", "categorize", "sensitive", "receipt", "general"}

INTENT_MODEL_MAP_SensitiveToGrok(intent) ==
    CASE intent = "advice"     -> "claude"
      [] intent = "categorize" -> "gemini"
      [] intent = "receipt"    -> "gemini"
      [] OTHER                 -> "grok"

\* ModelRouter.INTENT_MODEL_MAP, read with .get(intent, "grok")
INTENT_MODEL_MAP(intent) ==
    CASE intent = "roast"      -> "grok"
      [] intent = "general"    -> "grok"
      [] intent = "advice"     -> "claude"
      [] intent = "sensitive"  -> "claude"
      [] intent = "categorize" -> "gemini"
      [] intent = "receipt"    -> "gemini"
      [] OTHER                 -> "grok"

\* ModelRouter.COSTS, milli-dollars per million tokens
COSTS ==
    [grok   |-> [input |-> 200,  output |-> 500,   cached |-> 50],
     claude |-> [input |-> 3000, output |-> 15000, cached |-> 300],
     gemini |-> [input |-> 75,   output |-> 300,   cached |-> 20]]

\* costs = self.COSTS.get(model, self.COSTS["grok-4-fast"])
PriceRow(model) ==
    CASE model = "grok-4-fast"              -> COSTS.grok
      [] model = "claude-sonnet-4-20250514" -> COSTS.claude
      [] model = "gemini-2.0-flash"         -> COSTS.gemini
      [] OTHER                              -> COSTS.grok

\* ModelRouter._calculate_cost
_calculate_cost(model, input_tokens, output_tokens, cached_tokens) ==
    LET costs == PriceRow(model)
        fresh_input == input_tokens - cached_tokens
    IN  (fresh_input \div 1000) * costs.input
        + (cached_tokens \div 1000) * costs.cached
        + (output_tokens \div 1000) * costs.output

\* A message is the set of the local triggers it holds ("command": it is one
\* of the settings commands of ChatServiceV2.handle_command).  "advice": one of
\* "should i", "is it worth", "can i afford", "how much should", "advice",
\* "recommend", "budget", "invest", "save for", "is this a good idea";
\* "help_me": one of "help me", "what do you think about buying", the other
\* two entries of advice_triggers.
_local_intent_heuristics_ReceiptFirst(message) ==
    IF "roast_word" \in message THEN "roast"
    ELSE IF "greeting" \in message THEN "roast"
    ELSE IF "advice" \in message \/ "help_me" \in message THEN "advice"
    ELSE IF "receipt" \in message THEN "receipt"
    ELSE IF "category" \in message THEN "categorize"
    ELSE IF "complaint" \in message THEN "sensitive"
    ELSE IF "settings" \in message THEN "sensitive"
    ELSE None

\* ModelRouter._local_intent_heuristics: the first matching rule wins
_local_intent_heuristics(message) ==
    IF "roast_word" \in message THEN "roast"
    ELSE IF "greeting" \in message THEN "roast"
    ELSE IF "advice" \in message \/ "help_me" \in message THEN "advice"
    ELSE IF "category" \in message THEN "categorize"
    ELSE IF "receipt" \in message THEN "receipt"
    ELSE IF "complaint" \in message THEN "sensitive"
    ELSE IF "settings" \in message THEN "sensitive"
    ELSE None

\* what the remote classifier call can give back: a JSON object naming one of
\* the six intents, a JSON object naming another label, text that is not JSON,
\* or a transport error / timeout / non-2xx status
RemoteReplies == Intents \cup {"other_label", "not_json", "http_error"}

remote_intent_ErrorIsGeneral(reply) ==
    IF reply \in Intents THEN reply ELSE "general"

\* GeminiService.classify_intent: the intent it returns for a reply
remote_intent(reply) ==
    IF reply \in Intents THEN reply
    ELSE IF reply = "other_label" THEN "general"
    ELSE "roast"

\* GeminiService.classify_intent: the confidence, in hundredths; a parsed reply
\* states its own (90 here), the except branch returns 0.5
remote_confidence(reply) ==
    IF reply \in Intents \cup {"other_label"} THEN 90 ELSE 50

\* ModelRouter.classify_intent: confidence=0.85 for a local decision
local_confidence == 85

----------------------------------------------------------------------------
(* services/context_cache.py: ContextCache *)

STATIC_TTL == 86400

SLOW_TTL == 3600

Layers == {"static", "slow"}

\* _cache_key(user_id, layer): "ctx:{user_id}:{layer}"
_cache_key(user_id, layer) == <<user_id, layer>>

CacheKeys == Users \X Layers

NoEntry == [value |-> None, expiry |-> 0]

\* a Redis key holds its value until its expiry (SETEX), then it is gone
RedisGet(store, key, t) ==
    IF store[key] # NoEntry /\ t < store[key].expiry THEN store[key].value ELSE None

MemLiveLax(entry, t) == entry # NoEntry /\ t <= entry.expiry

\* if key in self._memory_cache ... if datetime.now() < expiry
MemLive(entry, t) == entry # NoEntry /\ t < entry.expiry

\* _get(key): the value returned; err: the Redis call raised
_get(key, err) ==
    IF redis_client /\ ~err
    THEN RedisGet(redis_store, key, now)
    ELSE IF MemLive(memory_cache[key], now) THEN memory_cache[key].value ELSE None

\* _get(key): the memory cache it leaves (an expired entry found is deleted)
MemAfterGet(key, err) ==
    IF redis_client /\ ~err THEN memory_cache
    ELSE IF memory_cache[key] # NoEntry /\ ~MemLive(memory_cache[key], now)
         THEN [memory_cache EXCEPT ![key] = NoEntry]
         ELSE memory_cache

\* _set(key, value, ttl): setex on Redis and return, else the memory cache
RedisAfterSet(key, value, ttl, err) ==
    IF redis_client /\ ~err
    THEN [redis_store EXCEPT ![key] = [value |-> value, expiry |-> now + ttl]]
    ELSE redis_store

MemAfterSet(key, value, ttl, err) ==
    IF redis_client /\ ~err THEN memory_cache
    ELSE [memory_cache EXCEPT ![key] = [value |-> value, expiry |-> now + ttl]]

\* _delete(key): delete on Redis (errors swallowed), then always pop from memory
RedisAfterDelete(key, err) ==
    IF redis_client /\ ~err THEN [redis_store EXCEPT ![key] = NoEntry]
    ELSE redis_store

MemAfterDelete(key) == [memory_cache EXCEPT ![key] = NoEntry]

\* set_static_context passes STATIC_TTL, set_slow_context passes SLOW_TTL
LayerTTL(layer) == IF layer = "static" THEN STATIC_TTL ELSE SLOW_TTL

NoGet == [key |-> None, value |-> None, backend |-> None, found |-> NoEntry,
          left |-> NoEntry, at |-> 0]

\* what _get(key) does when called now: the backend that answered, the entry it
\* found there, the value returned and the entry it left in the memory cache
GetRecord(key, err) ==
    [key     |-> key,
     value   |-> _get(key, err),
     backend |-> IF redis_client /\ ~err THEN "redis" ELSE "memory",
     found   |-> IF redis_client /\ ~err THEN redis_store[key] ELSE memory_cache[key],
     left    |-> MemAfterGet(key, err)[key],
     at      |-> now]

\* a Redis call can raise only when a client is configured
RedisErrs == IF redis_client THEN BOOLEAN ELSE {FALSE}

\* a value that json.loads rejects
Corrupt == "corrupt"

----------------------------------------------------------------------------
(* the replies of the model backends *)

\* usage reported by a backend: tokens in multiples of 1000
ModelUsages ==
    { [input_tokens |-> 0,       output_tokens |-> 0,    cached_tokens |-> 0],
      [input_tokens |-> 60000,   output_tokens |-> 2000, cached_tokens |-> 0],
      [input_tokens |-> 60000,   output_tokens |-> 2000, cached_tokens |-> 40000],
      [input_tokens |-> 2000000, output_tokens |-> 1000, cached_tokens |-> 0] }

ZeroUsage == [input_tokens |-> 0, output_tokens |-> 0, cached_tokens |-> 0]

\* a reply: "ok" with a usage; "http_error" (network error, timeout, non-2xx:
\* httpx.HTTPError / the SDK's error); "malformed" (a 2xx body without the
\* expected fields: KeyError, IndexError, ValueError)
AdapterReplies ==
    { [kind |-> "ok", usage |-> u] : u \in ModelUsages }
    \cup { [kind |-> k, usage |-> ZeroUsage] : k \in {"http_error", "malformed"} }

\* what an adapter hands back; calls: the backends it contacted, in order
Answer(content, model, usage, calls) ==
    [raised |-> FALSE, content |-> content, model |-> model,
     input_tokens |-> usage.input_tokens, output_tokens |-> usage.output_tokens,
     cached_tokens |-> usage.cached_tokens, calls |-> calls]

\* the adapter let an exception through
Raised(calls) ==
    [raised |-> TRUE, content |-> None, model |-> None,
     input_tokens |-> 0, output_tokens |-> 0, cached_tokens |-> 0, calls |-> calls]

roast_Failover(reply) ==
    IF reply.kind = "ok" THEN Answer("text", "grok-4-fast", reply.usage, <<"grok">>)
    ELSE Answer("text", "claude-sonnet-4-20250514",
                [input_tokens |-> 60000, output_tokens |-> 2000, cached_tokens |-> 0],
                <<"grok", "claude">>)

\* GrokService.roast: only httpx.HTTPError is caught
roast(reply) ==
    IF reply.kind = "ok" THEN Answer("text", "grok-4-fast", reply.usage, <<"grok">>)
    ELSE IF reply.kind = "http_error"
         THEN Answer("fallback_roast", "fallback", ZeroUsage, <<"grok">>)
    ELSE Raised(<<"grok">>)

\* ModelRouter._call_claude: every Exception is caught
_call_claude(reply) ==
    IF reply.kind = "ok"
    THEN Answer("text", "claude-sonnet-4-20250514", reply.usage, <<"claude">>)
    ELSE Answer("fallback_claude", "claude-fallback", ZeroUsage, <<"claude">>)

\* ModelRouter._call_gemini: every Exception is caught
_call_gemini(reply) ==
    IF reply.kind = "ok"
    THEN Answer("text", "gemini-2.0-flash", reply.usage, <<"gemini">>)
    ELSE Answer("fallback_gemini", "gemini-fallback", ZeroUsage, <<"gemini">>)

\* ModelRouter.route, step 3: the one adapter called for model_type
call_adapter(model_type, reply) ==
    IF model_type = "grok" THEN roast(reply)
    ELSE IF model_type = "claude" THEN _call_claude(reply)
    ELSE _call_gemini(reply)

\* ModelRouter.route: the ModelResponse built from the adapter's answer
ModelResponse(answer, intent) ==
    [content |-> answer.content, model |-> answer.model, intent |-> intent,
     input_tokens |-> answer.input_tokens, output_tokens |-> answer.output_tokens,
     cached_tokens |-> answer.cached_tokens,
     cost |-> _calculate_cost(answer.model, answer.input_tokens,
                              answer.output_tokens, answer.cached_tokens)]

\* ChatServiceV2.chat, except Exception: the reply on any error inside the block
ErrorResponse ==
    [content |-> "fallback_chat", model |-> "error", intent |-> "error",
     input_tokens |-> 0, output_tokens |-> 0, cached_tokens |-> 0, cost |-> 0]

\* ChatServiceV2.chat: the reply to a settings command
CommandResponse ==
    [content |-> "command_text", model |-> "command", intent |-> "command",
     input_tokens |-> 0, output_tokens |-> 0, cached_tokens |-> 0, cost |-> 0]

----------------------------------------------------------------------------
(* One chat request: main.py chat behind @rate_limit, ChatServiceV2.chat,     *)
(* ModelRouter.route, APIUsageTracker.  A worker carries one request from     *)
(* arrival to its reply, one action per stretch between two awaits that touch *)
(* shared state, and then takes the next request.                             *)

NoResponse ==
    [content |-> None, model |-> None, intent |-> None,
     input_tokens |-> 0, output_tokens |-> 0, cached_tokens |-> 0, cost |-> 0]

NoEvent == [user_id |-> None, endpoint |-> None,
            input_tokens |-> 0, output_tokens |-> 0, cost |-> 0]

IdleReq ==
    [pc |-> "idle", user |-> None, message |-> {}, profile |-> None,
     intent |-> None, confidence |-> 0, classifier |-> None,
     static |-> None, reply |-> None, response |-> NoResponse,
     tracker |-> [input_tokens |-> 0, output_tokens |-> 0],
     recorded |-> <<>>, logged |-> <<>>, outcome |-> None, steps |-> <<>>,
     window |-> <<>>]

\* Fields of a request: pc, where it stands; user, message, the inputs;
\* profile, static, intent, confidence (in hundredths), response, tracker, the
\* locals of the handlers;
\* outcome, what the caller gets ("ok": a reply, a refusal kind, "error": an
\* unhandled exception).  History: steps, the checks made and the outbound
\* calls issued for it, in order; classifier, "local" or what the remote
\* classifier call gave back; reply, the kind of the chosen backend's reply;
\* recorded, the counts passed to tracker.record, in order; logged, the ledger
\* rows written for it; window, the unexpired timestamps of the user's rate
\* window when the request arrived.

Terminal == {"done", "refused", "failed"}

\* the messages the requests carry
ChatMessages ==
    { {}, {"roast_word"}, {"greeting", "advice"}, {"advice"}, {"category"},
      {"receipt", "complaint"}, {"complaint"}, {"command", "settings", "mild"},
      {"advice", "long"}, {"empty"} }

\* len(message): a long message has 80000 characters, any other 40
MessageChars(message) == IF "long" \in message THEN 80000 ELSE 40

\* estimate_tokens(text): len(text) // 4
estimate_tokens(chars) == chars \div 4

Modes == {"mild", "moderate", "insanity"}

\* handle_command: the intensity mode a command names
CommandMode(message) ==
    IF "insanity" \in message THEN "insanity"
    ELSE IF "mild" \in message THEN "mild"
    ELSE "moderate"

Step(w, name) == Append(req[w].steps, name)

\* rate_limit.wrapper, first half: the request arrives and rate_limit_check runs
Arrive(w, u, m) ==
    /\ req[w].pc \in {"idle"} \cup Terminal
    /\ rate_limit_check(u)
    /\ req' = [req EXCEPT ![w] =
                 [IdleReq EXCEPT
                    !.user = u, !.message = m,
                    !.window = CleanOld(user_requests[u], now),
                    !.steps = <<"rate_limit_check">>,
                    !.pc = IF RateRefuses(user_requests[u], now)
                           THEN "refused" ELSE "token_limit_check",
                    !.outcome = IF RateRefuses(user_requests[u], now)
                                THEN "RateExceeded" ELSE None]]
    /\ UNCHANGED <<call, now, admitted, lastCheck, api_usage, profile, cacheVars>>

token_limit_check_NoRaise(w) ==
    /\ req[w].pc = "token_limit_check"
    /\ LET verdict == token_limit_verdict(
                          get_user_api_usage_today(api_usage, req[w].user))
       IN  req' = [req EXCEPT
                     ![w].steps = Step(w, "token_limit_check"),
                     ![w].pc = "get_profile",
                     ![w].outcome = CASE verdict = "token" -> "TokenBudgetExceeded"
                                      [] verdict = "cost"  -> "CostBudgetExceeded"
                                      [] OTHER             -> None]
    /\ UNCHANGED <<call, now, rateVars, api_usage, profile, cacheVars>>

\* rate_limit.wrapper, second half: await token_limit_check(user_id)
token_limit_check(w) ==
    /\ req[w].pc = "token_limit_check"
    /\ LET verdict == token_limit_verdict(
                          get_user_api_usage_today(api_usage, req[w].user))
       IN  req' = [req EXCEPT
                     ![w].steps = Step(w, "token_limit_check"),
                     ![w].pc = IF verdict = "pass" THEN "get_profile" ELSE "refused",
                     ![w].outcome = CASE verdict = "token" -> "TokenBudgetExceeded"
                                      [] verdict = "cost"  -> "CostBudgetExceeded"
                                      [] OTHER             -> None]
    /\ UNCHANGED <<call, now, rateVars, api_usage, profile, cacheVars>>

\* main.py chat: profile = await db.get_user_profile(user_id)
get_user_profile(w) ==
    /\ req[w].pc = "get_profile"
    /\ req' = [req EXCEPT ![w].profile = profile[req[w].user],
                          ![w].pc = "handle_command"]
    /\ UNCHANGED <<call, now, rateVars, api_usage, profile, cacheVars>>

\* ChatServiceV2.handle_command up to await db.update_user_profile
handle_command(w) ==
    /\ req[w].pc = "handle_command"
    /\ IF "command" \in req[w].message
       THEN /\ profile' = [profile EXCEPT ![req[w].user] = CommandMode(req[w].message)]
            /\ req' = [req EXCEPT ![w].pc = "invalidate",
                                  ![w].steps = Step(w, "update_user_profile")]
       ELSE /\ profile' = profile
            /\ req' = [req EXCEPT ![w].pc = "classify"]
    /\ UNCHANGED <<call, now, rateVars, api_usage, cacheVars>>

\* handle_command: await context_cache.invalidate_on_profile_update(user_id),
\* then the command's reply is saved and returned
invalidate_on_profile_update(w, err) ==
    /\ req[w].pc = "invalidate"
    /\ redis_store' = RedisAfterDelete(_cache_key(req[w].user, "static"), err)
    /\ memory_cache' = MemAfterDelete(_cache_key(req[w].user, "static"))
    /\ req' = [req EXCEPT ![w].pc = "done", ![w].outcome = "ok",
                          ![w].response = CommandResponse]
    /\ UNCHANGED <<call, now, rateVars, api_usage, profile, redis_client, lastGet, written>>

\* main.py PATCH /api/v1/profile: db.update_user_profile(user_id, updates) and
\* nothing else
update_profile(u, mode) ==
    /\ profile' = [profile EXCEPT ![u] = mode]
    /\ UNCHANGED <<call, now, rateVars, api_usage, cacheVars, req>>

classify_local_SkipBuild(w) ==
    /\ req[w].pc = "classify"
    /\ _local_intent_heuristics(req[w].message) # None
    /\ req' = [req EXCEPT ![w].intent = _local_intent_heuristics(req[w].message),
                          ![w].confidence = local_confidence,
                          ![w].classifier = "local",
                          ![w].steps = Step(w, "classify_local"),
                          ![w].pc = "invoke"]
    /\ UNCHANGED <<call, now, rateVars, api_usage, profile, cacheVars>>

\* ModelRouter.classify_intent: a local rule matches
classify_local(w) ==
    /\ req[w].pc = "classify"
    /\ _local_intent_heuristics(req[w].message) # None
    /\ req' = [req EXCEPT ![w].intent = _local_intent_heuristics(req[w].message),
                          ![w].confidence = local_confidence,
                          ![w].classifier = "local",
                          ![w].steps = Step(w, "classify_local"),
                          ![w].pc = "get_static"]
    /\ UNCHANGED <<call, now, rateVars, api_usage, profile, cacheVars>>

\* ModelRouter.classify_intent: no local rule, gemini_service.classify_intent
classify_remote(w, reply) ==
    /\ req[w].pc = "classify"
    /\ _local_intent_heuristics(req[w].message) = None
    /\ req' = [req EXCEPT ![w].intent = remote_intent(reply),
                          ![w].confidence = remote_confidence(reply),
                          ![w].classifier = reply,
                          ![w].steps = Step(w, "classifier"),
                          ![w].pc = "get_static"]
    /\ UNCHANGED <<call, now, rateVars, api_usage, profile, cacheVars>>

\* build_user_context: static = await self.get_static_context(user_id);
\* json.loads raises on a corrupt value; on a miss the snapshot is projected
\* from the profile argument (profile.get("learned_insights", [])[:5] raises
\* TypeError when the column is NULL: projOk = FALSE)
get_static_context(w, err, projOk) ==
    /\ req[w].pc = "get_static"
    /\ LET key  == _cache_key(req[w].user, "static")
           data == _get(key, err)
       IN  /\ memory_cache' = MemAfterGet(key, err)
           /\ IF data = Corrupt \/ (data = None /\ ~projOk)
              THEN req' = [req EXCEPT ![w].response = ErrorResponse,
                                      ![w].steps = Step(w, "build"),
                                      ![w].pc = "exit"]
              ELSE IF data # None
              THEN req' = [req EXCEPT ![w].static = data,
                                      ![w].steps = Step(w, "build"),
                                      ![w].pc = "get_slow"]
              ELSE req' = [req EXCEPT ![w].static = req[w].profile,
                                      ![w].steps = Step(w, "build"),
                                      ![w].pc = "set_static"]
    /\ UNCHANGED <<call, now, rateVars, api_usage, profile, redis_client, redis_store, lastGet,
                   written>>

\* build_user_context: await self.set_static_context(user_id, static)
set_static_context(w, err) ==
    /\ req[w].pc = "set_static"
    /\ LET key == _cache_key(req[w].user, "static")
       IN  /\ redis_store' = RedisAfterSet(key, req[w].static, STATIC_TTL, err)
           /\ memory_cache' = MemAfterSet(key, req[w].static, STATIC_TTL, err)
    /\ req' = [req EXCEPT ![w].pc = "get_slow"]
    /\ UNCHANGED <<call, now, rateVars, api_usage, profile, redis_client, lastGet, written>>

\* build_user_context: slow = await self.get_slow_context(user_id); main.py
\* passes life_context=None, so a miss takes the defaults and writes nothing
get_slow_context(w, err) ==
    /\ req[w].pc = "get_slow"
    /\ LET key  == _cache_key(req[w].user, "slow")
           data == _get(key, err)
       IN  /\ memory_cache' = MemAfterGet(key, err)
           /\ IF data = Corrupt
              THEN req' = [req EXCEPT ![w].response = ErrorResponse, ![w].pc = "exit"]
              ELSE req' = [req EXCEPT ![w].pc = "invoke"]
    /\ UNCHANGED <<call, now, rateVars, api_usage, profile, redis_client, redis_store, lastGet,
                   written>>

record_Accumulate(tracker, input_tokens, output_tokens) ==
    [input_tokens |-> tracker.input_tokens + input_tokens,
     output_tokens |-> tracker.output_tokens + output_tokens]

\* APIUsageTracker.record: the counts replace the ones held
record(tracker, input_tokens, output_tokens) ==
    [input_tokens |-> input_tokens, output_tokens |-> output_tokens]

\* ModelRouter.route step 3 and the rest of the try block of ChatServiceV2.chat:
\* the adapter of the intent's row is called once; its answer becomes the
\* ModelResponse and tracker.record(...) runs; an exception out of the adapter
\* lands in except Exception
invoke(w, reply) ==
    /\ req[w].pc = "invoke"
    /\ LET model_type == INTENT_MODEL_MAP(req[w].intent)
           answer     == call_adapter(model_type, reply)
           response   == ModelResponse(answer, req[w].intent)
       IN  IF answer.raised
           THEN req' = [req EXCEPT ![w].response = ErrorResponse,
                                   ![w].reply = reply.kind,
                                   ![w].steps = req[w].steps \o answer.calls,
                                   ![w].pc = "exit"]
           ELSE req' = [req EXCEPT ![w].response = response,
                                   ![w].reply = reply.kind,
                                   ![w].tracker = record(req[w].tracker,
                                                         response.input_tokens,
                                                         response.output_tokens),
                                   ![w].recorded =
                                       Append(@, [input_tokens |-> response.input_tokens,
                                                  output_tokens |-> response.output_tokens]),
                                   ![w].steps = req[w].steps \o answer.calls,
                                   ![w].pc = "exit"]
    /\ UNCHANGED <<call, now, rateVars, api_usage, profile, cacheVars>>

\* rate_limiter.log_api_call: the row written for the tracker's counts
UsageEvent(user_id, endpoint, input_tokens, output_tokens) ==
    [user_id |-> user_id, endpoint |-> endpoint,
     input_tokens |-> input_tokens, output_tokens |-> output_tokens,
     cost |-> calculate_cost(input_tokens, output_tokens)]

ShouldLogAlways(tracker) == TRUE

\* APIUsageTracker.__aexit__: if self.input_tokens > 0 or self.output_tokens > 0
ShouldLog(tracker) == tracker.input_tokens > 0 \/ tracker.output_tokens > 0

\* APIUsageTracker.__aexit__ as the block of ChatServiceV2.chat is left; dbOk:
\* the INSERT of db.log_api_usage succeeds (else its exception replaces the
\* return value of chat and the request fails)
tracker_exit(w, dbOk) ==
    /\ req[w].pc = "exit"
    /\ LET event == UsageEvent(req[w].user, "chat_v2", req[w].tracker.input_tokens,
                               req[w].tracker.output_tokens)
       IN  IF ShouldLog(req[w].tracker)
           THEN IF dbOk
                THEN /\ api_usage' = Append(api_usage, event)
                     /\ req' = [req EXCEPT ![w].logged = Append(@, event),
                                           ![w].steps = Step(w, "log_api_call"),
                                           ![w].outcome = "ok", ![w].pc = "done"]
                ELSE /\ api_usage' = api_usage
                     /\ req' = [req EXCEPT ![w].steps = Step(w, "log_api_call"),
                                           ![w].outcome = "error", ![w].pc = "failed"]
           ELSE /\ dbOk
                /\ api_usage' = api_usage
                /\ req' = [req EXCEPT ![w].outcome = "ok", ![w].pc = "done"]
    /\ UNCHANGED <<call, now, rateVars, profile, cacheVars>>

EmptyCache == [k \in CacheKeys |-> NoEntry]

\* the ledger may already hold a row of another user
OtherUsersRow ==
    [user_id |-> "u2", endpoint |-> "chat", input_tokens |-> 2000000,
     output_tokens |-> 1000, cost |-> calculate_cost(2000000, 1000)]

\* the shared Redis may hold, under a key of the cache, a value this process
\* did not write and json.loads rejects
ForeignValue ==
    [EmptyCache EXCEPT ![<<"u1", "static">>] = [value |-> Corrupt, expiry |-> STATIC_TTL]]

\* Spec serves the requests of one user one after the other
ChatWorkers == {"w1"}

ChatUsers == {"u1"}

\* Spec starts inside a minute in which the user was already admitted some
\* times: the window has room for WindowRoom more requests
WindowRoom == 3

EarlierRequests == [i \in 1..(MAX_REQUESTS_PER_MINUTE - WindowRoom) |-> 0]

InitChat ==
    /\ now = 0
    /\ user_requests = [u \in Users |-> IF u \in ChatUsers THEN EarlierRequests ELSE <<>>]
    /\ admitted = [u \in Users |-> <<>>]
    /\ lastCheck = [user |-> None, at |-> 0, result |-> None, before |-> <<>>]
    /\ api_usage \in {<<>>, <<OtherUsersRow>>}
    /\ profile = [u \in Users |-> "moderate"]
    /\ redis_client \in BOOLEAN
    /\ redis_store \in IF redis_client THEN {EmptyCache, ForeignValue} ELSE {EmptyCache}
    /\ memory_cache = EmptyCache
    /\ lastGet = NoGet
    /\ written = EmptyCache
    /\ req = [w \in Workers |-> IdleReq]
    /\ call = NoCall

ArriveStep == \E w \in ChatWorkers, u \in ChatUsers, m \in ChatMessages : Arrive(w, u, m)

TokenCheckStep == \E w \in ChatWorkers : token_limit_check(w)

GetProfileStep == \E w \in ChatWorkers : get_user_profile(w)

CommandStep == \E w \in ChatWorkers : handle_command(w)

InvalidateStep == \E w \in ChatWorkers, err \in RedisErrs : invalidate_on_profile_update(w, err)

ClassifyLocalStep == \E w \in ChatWorkers : classify_local(w)

ClassifyRemoteStep == \E w \in ChatWorkers, r \in RemoteReplies : classify_remote(w, r)

GetStaticStep ==
    \E w \in ChatWorkers, err \in RedisErrs, ok \in BOOLEAN : get_static_context(w, err, ok)

SetStaticStep == \E w \in ChatWorkers, err \in RedisErrs : set_static_context(w, err)

GetSlowStep == \E w \in ChatWorkers, err \in RedisErrs : get_slow_context(w, err)

InvokeStepAction == \E w \in ChatWorkers, r \in AdapterReplies : invoke(w, r)

TrackerExitStep == \E w \in ChatWorkers, dbOk \in BOOLEAN : tracker_exit(w, dbOk)

\* the mode a PATCH of the profile sets
PatchModes == {"insanity"}

\* Spec serves one request at a time: the PATCH comes between two chat requests
UpdateProfileStep ==
    /\ \A w \in ChatWorkers : req[w].pc \in {"idle"} \cup Terminal
    /\ \E u \in ChatUsers, mode \in PatchModes : update_profile(u, mode)

Next ==
    \/ ArriveStep
    \/ TokenCheckStep
    \/ GetProfileStep
    \/ CommandStep
    \/ InvalidateStep
    \/ ClassifyLocalStep
    \/ ClassifyRemoteStep
    \/ GetStaticStep
    \/ SetStaticStep
    \/ GetSlowStep
    \/ InvokeStepAction
    \/ TrackerExitStep
    \/ UpdateProfileStep

Spec == InitChat /\ [][Next]_vars

----------------------------------------------------------------------------
(* The rate limiter alone: bare calls of rate_limit_check as time passes *)

SumLen(f) ==
    LET RECURSIVE S(_)
        S(D) == IF D = {} THEN 0
                ELSE LET d == CHOOSE x \in D : TRUE IN Len(f[d]) + S(D \ {d})
    IN  S(DOMAIN f)

RateCheck(u) ==
    /\ SumLen(admitted) < MaxAdmitted
    /\ rate_limit_check(u)
    /\ admitted' = IF RateRefuses(user_requests[u], now) THEN admitted
                   ELSE [admitted EXCEPT ![u] = Append(@, now)]
    /\ lastCheck' = [user |-> u, at |-> now,
                     result |-> IF RateRefuses(user_requests[u], now)
                                THEN "refuse" ELSE "admit",
                     before |-> user_requests[u]]
    /\ UNCHANGED <<call, now, api_usage, profile, cacheVars, req>>

Tick ==
    \E d \in TickSteps :
        /\ now + d <= MaxTime
        /\ now' = now + d
        /\ UNCHANGED <<call, rateVars, api_usage, profile, cacheVars, req>>

InitRate ==
    /\ now = 0
    /\ user_requests = [u \in Users |-> <<>>]
    /\ admitted = [u \in Users |-> <<>>]
    /\ lastCheck = [user |-> None, at |-> 0, result |-> None, before |-> <<>>]
    /\ api_usage = <<>>
    /\ profile = [u \in Users |-> "moderate"]
    /\ redis_client = FALSE
    /\ redis_store = EmptyCache
    /\ memory_cache = EmptyCache
    /\ lastGet = NoGet
    /\ written = EmptyCache
    /\ req = [w \in Workers |-> IdleReq]
    /\ call = NoCall

RateCheckStep == \E u \in Users : RateCheck(u)

NextRate == RateCheckStep \/ Tick

SpecRate == InitRate /\ [][NextRate]_vars

----------------------------------------------------------------------------
(* context_cache.py: the cache primitives under a moving clock *)

\* the instants at which the clock is read: before, at and after each TTL
CacheTimes ==
    {0, SLOW_TTL \div 2, SLOW_TTL, STATIC_TTL, STATIC_TTL + SLOW_TTL}

CacheValues == {"a", "b"}

CacheGet(key, err) ==
    /\ lastGet' = GetRecord(key, err)
    /\ memory_cache' = MemAfterGet(key, err)
    /\ UNCHANGED <<call, now, rateVars, api_usage, profile, redis_client, redis_store, written,
                   req>>

CacheSet(key, value, err) ==
    /\ redis_store' = RedisAfterSet(key, value, LayerTTL(key[2]), err)
    /\ memory_cache' = MemAfterSet(key, value, LayerTTL(key[2]), err)
    /\ lastGet' = NoGet
    /\ written' = [written EXCEPT ![key] = [value |-> value,
                                            expiry |-> now + LayerTTL(key[2])]]
    /\ UNCHANGED <<call, now, rateVars, api_usage, profile, redis_client, req>>

CacheDelete(key, err) ==
    /\ redis_store' = RedisAfterDelete(key, err)
    /\ memory_cache' = MemAfterDelete(key)
    /\ lastGet' = NoGet
    /\ written' = [written EXCEPT ![key] = NoEntry]
    /\ UNCHANGED <<call, now, rateVars, api_usage, profile, redis_client, req>>

CacheTick ==
    /\ \E t \in CacheTimes : t > now /\ now' = t
    /\ lastGet' = NoGet
    /\ UNCHANGED <<call, rateVars, api_usage, profile, redis_client, redis_store,
                   memory_cache, written, req>>

InitCache ==
    /\ now = 0
    /\ user_requests = [u \in Users |-> <<>>]
    /\ admitted = [u \in Users |-> <<>>]
    /\ lastCheck = [user |-> None, at |-> 0, result |-> None, before |-> <<>>]
    /\ api_usage = <<>>
    /\ profile = [u \in Users |-> "moderate"]
    /\ redis_client \in BOOLEAN
    /\ redis_store = EmptyCache
    /\ memory_cache = EmptyCache
    /\ lastGet = NoGet
    /\ written = EmptyCache
    /\ req = [w \in Workers |-> IdleReq]
    /\ call = NoCall

CacheKeysOf(users) == {_cache_key(u, l) : u \in users, l \in Layers}

CacheGetStep == \E key \in CacheKeysOf(ChatUsers), err \in RedisErrs : CacheGet(key, err)

CacheSetStep ==
    \E key \in CacheKeysOf(ChatUsers), v \in CacheValues, err \in RedisErrs :
        CacheSet(key, v, err)

CacheDeleteStep ==
    \E key \in CacheKeysOf(ChatUsers), err \in RedisErrs : CacheDelete(key, err)

NextCache == CacheGetStep \/ CacheSetStep \/ CacheDeleteStep \/ CacheTick

SpecCache == InitCache /\ [][NextCache]_vars

----------------------------------------------------------------------------
(* rate_limiter.py: an APIUsageTracker block on its own *)

MaxRows == 2

MaxRecords == 2

\* the counts a block may record
TrackerCounts == {0, 1000, 2000}

\* async with APIUsageTracker(user_id, endpoint) as tracker: counts start at 0
TrackerEnter(w, u) ==
    /\ req[w].pc \in {"idle"} \cup Terminal
    /\ Len(api_usage) < MaxRows
    /\ req' = [req EXCEPT ![w] = [IdleReq EXCEPT !.user = u, !.pc = "exit"]]
    /\ UNCHANGED <<call, now, rateVars, api_usage, profile, cacheVars>>

\* tracker.record(input_tokens, output_tokens) inside the block
TrackerRecord(w, input_tokens, output_tokens) ==
    /\ req[w].pc = "exit"
    /\ Len(req[w].recorded) < MaxRecords
    /\ req' = [req EXCEPT
                 ![w].tracker = record(req[w].tracker, input_tokens, output_tokens),
                 ![w].recorded = Append(@, [input_tokens |-> input_tokens,
                                            output_tokens |-> output_tokens])]
    /\ UNCHANGED <<call, now, rateVars, api_usage, profile, cacheVars>>

InitTracker ==
    /\ now = 0
    /\ user_requests = [u \in Users |-> <<>>]
    /\ admitted = [u \in Users |-> <<>>]
    /\ lastCheck = [user |-> None, at |-> 0, result |-> None, before |-> <<>>]
    /\ api_usage = <<>>
    /\ profile = [u \in Users |-> "moderate"]
    /\ redis_client = FALSE
    /\ redis_store = EmptyCache
    /\ memory_cache = EmptyCache
    /\ lastGet = NoGet
    /\ written = EmptyCache
    /\ req = [w \in Workers |-> IdleReq]
    /\ call = NoCall

TrackerEnterStep == \E w \in ChatWorkers, u \in ChatUsers : TrackerEnter(w, u)

TrackerRecordStep ==
    \E w \in ChatWorkers, i \in TrackerCounts, o \in TrackerCounts : TrackerRecord(w, i, o)

TrackerLeaveStep == \E w \in ChatWorkers, dbOk \in BOOLEAN : tracker_exit(w, dbOk)

NextTracker == TrackerEnterStep \/ TrackerRecordStep \/ TrackerLeaveStep

SpecTracker == InitTracker /\ [][NextTracker]_vars

----------------------------------------------------------------------------
(* rate_limiter.py: truncate_to_budget *)

\* a message is its role and the length of its content
Reverse(seq) == [i \in 1..Len(seq) |-> seq[Len(seq) + 1 - i]]

\* estimate_tokens(content) + 4
MsgTokens(msg) == estimate_tokens(msg.chars) + 4

RECURSIVE count_message_tokens(_)
count_message_tokens(messages) ==
    IF messages = <<>> THEN 0
    ELSE MsgTokens(Head(messages)) + count_message_tokens(Tail(messages))

\* for msg in messages: if current + msg_tokens > max_tokens: break; else keep
RECURSIVE KeepRecent(_, _, _)
KeepRecent(messages, current, max_tokens) ==
    IF messages = <<>> THEN <<>>
    ELSE IF current + MsgTokens(Head(messages)) > max_tokens THEN <<>>
    ELSE <<Head(messages)>>
           \o KeepRecent(Tail(messages), current + MsgTokens(Head(messages)), max_tokens)

truncate_to_budget(messages, max_tokens) ==
    IF messages = <<>> THEN messages
    ELSE IF count_message_tokens(messages) <= max_tokens THEN messages
    ELSE LET hasSystem == messages[1].role = "system"
             kept   == IF hasSystem THEN <<messages[1]>> ELSE <<>>
             rest   == IF hasSystem THEN Tail(messages) ELSE messages
             result == kept \o KeepRecent(Reverse(rest), 0, max_tokens)
         IN  IF result # <<>> /\ result[1].role = "system"
             THEN <<result[1]>> \o Reverse(Tail(result))
             ELSE Reverse(result)

MaxMessages == 3

\* content lengths of the messages of the conversation
ContentChars == {0, 12, 160, 400}

\* a system message is the 12 characters "You are FURG" (7 tokens), which every
\* budget drawn can hold
Messages ==
    [role : {"system"}, chars : {12}] \cup [role : {"user", "assistant"}, chars : ContentChars]

MessageLists == UNION {[1..n -> Messages] : n \in 0..MaxMessages}

Budgets == {10, 50, 120, 8000}

InitTruncate ==
    /\ now = 0
    /\ user_requests = [u \in Users |-> <<>>]
    /\ admitted = [u \in Users |-> <<>>]
    /\ lastCheck = [user |-> None, at |-> 0, result |-> None, before |-> <<>>]
    /\ api_usage = <<>>
    /\ profile = [u \in Users |-> "moderate"]
    /\ redis_client = FALSE
    /\ redis_store = EmptyCache
    /\ memory_cache = EmptyCache
    /\ lastGet = NoGet
    /\ written = EmptyCache
    /\ req = [w \in Workers |-> IdleReq]
    /\ call \in [pc : {"called"}, messages : MessageLists, max_tokens : Budgets,
                  result : {<<>>}]

Truncate ==
    /\ call.pc = "called"
    /\ call' = [call EXCEPT !.pc = "returned",
                            !.result = truncate_to_budget(call.messages, call.max_tokens)]
    /\ UNCHANGED <<now, rateVars, api_usage, profile, cacheVars, req>>

NextTruncate == Truncate

SpecTruncate == InitTruncate /\ [][NextTruncate]_vars

----------------------------------------------------------------------------
(* model_router.py: ModelRouter.route as a coroutine that can be cancelled *)

\* the clock counts milliseconds and advances by TickMs while the coroutine
\* waits
TickMs == 100

MaxClock == 400

\* route is entered for the messages that are no settings command
RouteMessages == {m \in ChatMessages : "command" \notin m}

\* the coroutine is suspended at an await of an asynchronous client (httpx for
\* the classifier and for the Grok and Gemini adapters, redis.asyncio for the
\* shared cache), where the event loop can throw CancelledError into it
Suspended == {"classifier_wait", "cache_wait", "adapter_wait"}

\* _call_claude calls the synchronous client anthropic.Anthropic: the thread of
\* the event loop is inside messages.create until the call returns
Blocked == {"claude_blocked"}

Returned == {"route_returned", "route_cancelled"}

\* build_user_context with life_context = None: get_static_context, then
\* set_static_context after a miss, then get_slow_context
CacheOps(static_hit) ==
    IF static_hit THEN <<"get_static", "get_slow">>
    ELSE <<"get_static", "set_static", "get_slow">>

Outbound(to) == Append(call.outbound, [to |-> to, after_cancel |-> call.cancel])

InitCancel ==
    /\ now = 0
    /\ user_requests = [u \in Users |-> <<>>]
    /\ admitted = [u \in Users |-> <<>>]
    /\ lastCheck = [user |-> None, at |-> 0, result |-> None, before |-> <<>>]
    /\ api_usage = <<>>
    /\ profile = [u \in Users |-> "moderate"]
    /\ redis_client \in BOOLEAN
    /\ redis_store = EmptyCache
    /\ memory_cache = EmptyCache
    /\ lastGet = NoGet
    /\ written = EmptyCache
    /\ req = [w \in Workers |-> IdleReq]
    /\ call \in [pc : {"route"}, message : RouteMessages, static_hit : BOOLEAN,
                  intent : {None}, ops : {<<>>}, outbound : {<<>>},
                  cancel : {FALSE}, cancelAt : {0}, clock : {0}, returnedAt : {0}]

\* route, step 1: classify_intent answers from the local heuristics or awaits
\* gemini_service.classify_intent
RouteClassify ==
    /\ call.pc = "route"
    /\ LET local_intent == _local_intent_heuristics(call.message)
       IN  IF local_intent # None
           THEN call' = [call EXCEPT !.pc = "classified", !.intent = local_intent]
           ELSE call' = [call EXCEPT !.pc = "classifier_wait",
                                     !.outbound = Outbound("classifier")]
    /\ UNCHANGED <<now, rateVars, api_usage, profile, cacheVars, req>>

\* the classifier's reply arrives and the coroutine resumes
ClassifierReturns ==
    /\ call.pc = "classifier_wait"
    /\ ~call.cancel
    /\ \E reply \in RemoteReplies :
         call' = [call EXCEPT !.pc = "classified", !.intent = remote_intent(reply)]
    /\ UNCHANGED <<now, rateVars, api_usage, profile, cacheVars, req>>

\* route, step 2: build_user_context starts
RouteBuild ==
    /\ call.pc = "classified"
    /\ call' = [call EXCEPT !.pc = "building", !.ops = CacheOps(call.static_hit)]
    /\ UNCHANGED <<now, rateVars, api_usage, profile, cacheVars, req>>

\* _get / _set: with a Redis client the operation is awaited, without one it
\* is served from the memory cache at once; after the last one route goes on
CacheOp ==
    /\ call.pc = "building"
    /\ IF call.ops = <<>>
       THEN call' = [call EXCEPT !.pc = "built"]
       ELSE IF redis_client
       THEN call' = [call EXCEPT !.pc = "cache_wait", !.outbound = Outbound("cache")]
       ELSE call' = [call EXCEPT !.ops = Tail(call.ops)]
    /\ UNCHANGED <<now, rateVars, api_usage, profile, cacheVars, req>>

\* Redis answers (or fails, and the memory cache serves the operation)
CacheReturns ==
    /\ call.pc = "cache_wait"
    /\ ~call.cancel
    /\ call' = [call EXCEPT !.pc = "building", !.ops = Tail(call.ops)]
    /\ UNCHANGED <<now, rateVars, api_usage, profile, cacheVars, req>>

\* route, step 3: the adapter of the intent is called; Grok and Gemini are
\* awaited, Claude is called synchronously
RouteInvoke ==
    /\ call.pc = "built"
    /\ LET model_type == INTENT_MODEL_MAP(call.intent)
       IN  call' = [call EXCEPT
                      !.pc = IF model_type = "claude" THEN "claude_blocked"
                             ELSE "adapter_wait",
                      !.outbound = Outbound(model_type)]
    /\ UNCHANGED <<now, rateVars, api_usage, profile, cacheVars, req>>

\* the awaited adapter answers and route returns its ModelResponse
AdapterReturns ==
    /\ call.pc = "adapter_wait"
    /\ ~call.cancel
    /\ call' = [call EXCEPT !.pc = "route_returned", !.returnedAt = call.clock]
    /\ UNCHANGED <<now, rateVars, api_usage, profile, cacheVars, req>>

\* messages.create returns (or raises, and _call_claude gives its fallback);
\* no await lies between it and route's return statement
ClaudeReturns ==
    /\ call.pc = "claude_blocked"
    /\ call' = [call EXCEPT !.pc = "route_returned", !.returnedAt = call.clock]
    /\ UNCHANGED <<now, rateVars, api_usage, profile, cacheVars, req>>

\* the caller cancels the request while route waits for an outbound call
Cancel ==
    /\ call.pc \in Suspended \cup Blocked
    /\ ~call.cancel
    /\ call' = [call EXCEPT !.cancel = TRUE, !.cancelAt = call.clock]
    /\ UNCHANGED <<now, rateVars, api_usage, profile, cacheVars, req>>

\* the event loop throws CancelledError into the suspended coroutine; every
\* handler on the way out is "except Exception", which does not catch it
CancelledError ==
    /\ call.pc \in Suspended
    /\ call.cancel
    /\ call' = [call EXCEPT !.pc = "route_cancelled", !.returnedAt = call.clock]
    /\ UNCHANGED <<now, rateVars, api_usage, profile, cacheVars, req>>

\* time passes while route waits; a pending cancellation of a suspended
\* coroutine is delivered first
CancelTick ==
    /\ call.pc \in Suspended \cup Blocked
    /\ ~(call.cancel /\ call.pc \in Suspended)
    /\ call.clock + TickMs <= MaxClock
    /\ call' = [call EXCEPT !.clock = call.clock + TickMs]
    /\ UNCHANGED <<now, rateVars, api_usage, profile, cacheVars, req>>

NextCancel ==
    \/ RouteClassify
    \/ ClassifierReturns
    \/ RouteBuild
    \/ CacheOp
    \/ CacheReturns
    \/ RouteInvoke
    \/ AdapterReturns
    \/ ClaudeReturns
    \/ Cancel
    \/ CancelledError
    \/ CancelTick

SpecCancel == InitCancel /\ [][NextCancel]_vars

----------------------------------------------------------------------------
(* rate_limiter.py: check_budget_available *)

\* estimated_total = estimated_input_tokens * 3;
\* return (total_tokens + estimated_total) < MAX_TOKENS_PER_DAY
check_budget_available(rows, user_id, estimated_input_tokens) ==
    LET usage == get_user_api_usage_today(rows, user_id)
        total_tokens == usage.input_tokens + usage.output_tokens
        estimated_total == estimated_input_tokens * 3
    IN  (total_tokens + estimated_total) < MAX_TOKENS_PER_DAY

\* the rows of today's ledger and the estimates the function is called with
BudgetRows ==
    {[user_id |-> u, endpoint |-> "chat_v2", input_tokens |-> i, output_tokens |-> o,
      cost |-> calculate_cost(i, o)] :
        u \in Users,
        i \in {0, 40000, MAX_TOKENS_PER_DAY - 3000, MAX_TOKENS_PER_DAY - 100},
        o \in {0, 2000}}

MaxBudgetRows == 2

BudgetLedgers == UNION {[1..n -> BudgetRows] : n \in 0..MaxBudgetRows}

BudgetEstimates == {0, 1000, 10000}

InitBudget ==
    /\ now = 0
    /\ user_requests = [u \in Users |-> <<>>]
    /\ admitted = [u \in Users |-> <<>>]
    /\ lastCheck = [user |-> None, at |-> 0, result |-> None, before |-> <<>>]
    /\ api_usage \in BudgetLedgers
    /\ profile = [u \in Users |-> "moderate"]
    /\ redis_client = FALSE
    /\ redis_store = EmptyCache
    /\ memory_cache = EmptyCache
    /\ lastGet = NoGet
    /\ written = EmptyCache
    /\ req = [w \in Workers |-> IdleReq]
    /\ call \in [pc : {"budget_called"}, user_id : {"u1"},
                  estimated_input_tokens : BudgetEstimates, available : {FALSE}]

CheckBudget ==
    /\ call.pc = "budget_called"
    /\ call' = [call EXCEPT
                  !.pc = "budget_returned",
                  !.available = check_budget_available(api_usage, call.user_id,
                                                       call.estimated_input_tokens)]
    /\ UNCHANGED <<now, rateVars, api_usage, profile, cacheVars, req>>

NextBudget == CheckBudget

SpecBudget == InitBudget /\ [][NextBudget]_vars

----------------------------------------------------------------------------
(* model_router.py: ModelRouter._calculate_cost on the counts of a response *)

\* the model names a response carries (a fallback's name has no price row)
CostModels ==
    {"grok-4-fast", "claude-sonnet-4-20250514", "gemini-2.0-flash", "claude-fallback"}

\* token counts, in thousands of tokens up to MaxCostTokens thousand
MaxCostTokens == 3

CostTokens == {1000 * k : k \in 0..MaxCostTokens}

InitCost ==
    /\ now = 0
    /\ user_requests = [u \in Users |-> <<>>]
    /\ admitted = [u \in Users |-> <<>>]
    /\ lastCheck = [user |-> None, at |-> 0, result |-> None, before |-> <<>>]
    /\ api_usage = <<>>
    /\ profile = [u \in Users |-> "moderate"]
    /\ redis_client = FALSE
    /\ redis_store = EmptyCache
    /\ memory_cache = EmptyCache
    /\ lastGet = NoGet
    /\ written = EmptyCache
    /\ req = [w \in Workers |-> IdleReq]
    /\ call \in [pc : {"cost_called"}, model : CostModels, input_tokens : CostTokens,
                  output_tokens : CostTokens, cached_tokens : CostTokens, cost : {0}]

CalculateCost ==
    /\ call.pc = "cost_called"
    /\ call' = [call EXCEPT
                  !.pc = "cost_returned",
                  !.cost = _calculate_cost(call.model, call.input_tokens,
                                           call.output_tokens, call.cached_tokens)]
    /\ UNCHANGED <<now, rateVars, api_usage, profile, cacheVars, req>>

NextCost == CalculateCost

SpecCost == InitCost /\ [][NextCost]_vars

----------------------------------------------------------------------------
(* model_router.py: ModelRouter._local_intent_heuristics on every message *)

\* what a message can hold: a trigger of each of the seven rules, and one of
\* the two advice triggers "help me", "what do you think about buying"
Triggers ==
    {"roast_word", "greeting", "advice", "help_me", "category", "receipt",
     "complaint", "settings"}

InitHeuristics ==
    /\ now = 0
    /\ user_requests = [u \in Users |-> <<>>]
    /\ admitted = [u \in Users |-> <<>>]
    /\ lastCheck = [user |-> None, at |-> 0, result |-> None, before |-> <<>>]
    /\ api_usage = <<>>
    /\ profile = [u \in Users |-> "moderate"]
    /\ redis_client = FALSE
    /\ redis_store = EmptyCache
    /\ memory_cache = EmptyCache
    /\ lastGet = NoGet
    /\ written = EmptyCache
    /\ req = [w \in Workers |-> IdleReq]
    /\ call \in [pc : {"heuristics_called"}, message : SUBSET Triggers,
                  local_intent : {None}]

LocalHeuristics ==
    /\ call.pc = "heuristics_called"
    /\ call' = [call EXCEPT !.pc = "heuristics_returned",
                            !.local_intent = _local_intent_heuristics(call.message)]
    /\ UNCHANGED <<now, rateVars, api_usage, profile, cacheVars, req>>

NextHeuristics == LocalHeuristics

SpecHeuristics == InitHeuristics /\ [][NextHeuristics]_vars

----------------------------------------------------------------------------
(* main.py chat under concurrent requests of one user: every await of the
   handlers is a point where the other request's coroutine may run *)

\* the requests of the user: a chat message and a settings command
ConcurrentMessages == { {"roast_word"}, {"command", "settings", "insanity"} }

\* the chat requests are answered with this usage
ConcurrentReplies ==
    { [kind |-> "ok",
       usage |-> [input_tokens |-> 60000, output_tokens |-> 2000, cached_tokens |-> 0]] }

\* the user sends at most MaxArrivals requests
MaxArrivals == 3

InitConcurrent ==
    /\ now = 0
    /\ user_requests = [u \in Users |-> <<>>]
    /\ admitted = [u \in Users |-> <<>>]
    /\ lastCheck = [user |-> None, at |-> 0, result |-> None, before |-> <<>>]
    /\ api_usage = <<>>
    /\ profile = [u \in Users |-> "moderate"]
    /\ redis_client \in BOOLEAN
    /\ redis_store = EmptyCache
    /\ memory_cache = EmptyCache
    /\ lastGet = NoGet
    /\ written = EmptyCache
    /\ req = [w \in Workers |-> IdleReq]
    /\ call = NoCall

\* each disjunct is one await-delimited step of one of the requests
NextConcurrent ==
    \/ \E w \in Workers, u \in ChatUsers, m \in ConcurrentMessages :
         /\ Len(user_requests[u]) < MaxArrivals
         /\ Arrive(w, u, m)
    \/ \E w \in Workers : token_limit_check(w)
    \/ \E w \in Workers : get_user_profile(w)
    \/ \E w \in Workers : handle_command(w)
    \/ \E w \in Workers : invalidate_on_profile_update(w, FALSE)
    \/ \E w \in Workers : classify_local(w)
    \/ \E w \in Workers : get_static_context(w, FALSE, TRUE)
    \/ \E w \in Workers : set_static_context(w, FALSE)
    \/ \E w \in Workers : get_slow_context(w, FALSE)
    \/ \E w \in Workers, r \in ConcurrentReplies : invoke(w, r)
    \/ \E w \in Workers : tracker_exit(w, TRUE)

SpecConcurrent == InitConcurrent /\ [][NextConcurrent]_vars

----------------------------------------------------------------------------
(* Claims *)

AdmittedIn(u, s) ==
    {i \in DOMAIN admitted[u] : admitted[u][i] > s /\ admitted[u][i] <= s + WINDOW_SECONDS}

\* C1: for every user and every 60 s window (s, s + 60], at most
\* MAX_REQUESTS_PER_MINUTE rate checks with an arrival time in the window were
\* admitted, and the user's list never holds more than that many unexpired
\* timestamps (specification SpecRate).  The arrivals of any window lie in the
\* window that ends at the last of them, so those windows are the ones counted.
C1_RateBound ==
    \A u \in Users :
        /\ \A i \in DOMAIN admitted[u] :
               Cardinality(AdmittedIn(u, admitted[u][i] - WINDOW_SECONDS))
                   <= MAX_REQUESTS_PER_MINUTE
        /\ Len(CleanOld(user_requests[u], now)) <= MAX_REQUESTS_PER_MINUTE

\* a full window refused a check, and after it expired the user was admitted again
C1_Witness ==
    \E u \in Users :
        /\ Len(admitted[u]) > MAX_REQUESTS_PER_MINUTE
        /\ lastCheck.user = u /\ lastCheck.result = "admit"
        /\ Len(lastCheck.before) = MAX_REQUESTS_PER_MINUTE

SumCost(u) == get_user_api_usage_today(api_usage, u).total_cost

TotalTokens(u) ==
    get_user_api_usage_today(api_usage, u).input_tokens
    + get_user_api_usage_today(api_usage, u).output_tokens

RefusalKinds == {"RateExceeded", "TokenBudgetExceeded", "CostBudgetExceeded"}

\* this step, rate_limit_check refuses a request arriving at worker w
RateDecision(w) ==
    /\ req[w].pc \in {"idle"} \cup Terminal
    /\ req'[w] # req[w]
    /\ req'[w].steps = <<"rate_limit_check">>
    /\ req'[w].pc = "refused"

\* this step, token_limit_check decides on the request of worker w
TokenDecision(w) ==
    /\ req[w].pc = "token_limit_check"
    /\ req'[w].pc # "token_limit_check"

\* C2 as stated: once the cost sum of user U is >= MAX_COST_PER_DAY, every
\* admission decision for U is a refusal of kind CostBudgetExceeded.
C2_AlwaysCostKind ==
    [][\A w \in Workers :
         ((RateDecision(w) \/ TokenDecision(w))
             /\ SumCost(req'[w].user) >= MAX_COST_PER_DAY)
         => (req'[w].pc = "refused" /\ req'[w].outcome = "CostBudgetExceeded")]_vars

\* C2 amended: once the cost sum of user U is >= MAX_COST_PER_DAY, every
\* admission decision for U is a refusal, of the first kind in the order rate,
\* token, cost: RateExceeded when the rate window is full, else
\* TokenBudgetExceeded when the token total is >= MAX_TOKENS_PER_DAY, else
\* CostBudgetExceeded.
C2_RefusedOnceOverCost ==
    [][\A w \in Workers :
         ((RateDecision(w) \/ TokenDecision(w))
             /\ SumCost(req'[w].user) >= MAX_COST_PER_DAY)
         => /\ req'[w].pc = "refused"
            /\ req'[w].outcome =
                 IF RateDecision(w) THEN "RateExceeded"
                 ELSE IF TotalTokens(req'[w].user) >= MAX_TOKENS_PER_DAY
                      THEN "TokenBudgetExceeded"
                      ELSE "CostBudgetExceeded"]_vars

\* the user's cost sum is over the ceiling and the request was refused for it
C2_Witness ==
    \E w \in Workers :
        /\ req[w].pc = "refused"
        /\ req[w].steps = <<"rate_limit_check", "token_limit_check">>
        /\ SumCost(req[w].user) >= MAX_COST_PER_DAY
        /\ req[w].outcome = "TokenBudgetExceeded"

GuardSteps == {"rate_limit_check", "token_limit_check"}

\* C3: a request the guard refuses (rate, token or cost) has made no classifier
\* call, no context build and no model call, and any such step of a request
\* comes after both rate_limit_check and token_limit_check passed.
C3_RefusedDoesNothing ==
    \A w \in Workers :
        LET st == req[w].steps
        IN  /\ req[w].outcome \in RefusalKinds
                 => \A i \in DOMAIN st : st[i] \in GuardSteps
            /\ \A i \in DOMAIN st :
                 st[i] \notin GuardSteps
                 => /\ i >= 3
                    /\ st[1] = "rate_limit_check" /\ st[2] = "token_limit_check"
                    /\ req[w].outcome \notin RefusalKinds

\* a request refused by token_limit_check, stopped there
C3_Witness ==
    \E w \in Workers :
        /\ req[w].pc = "refused"
        /\ req[w].outcome = "TokenBudgetExceeded"
        /\ req[w].steps = <<"rate_limit_check", "token_limit_check">>
        /\ req[w].reply = None /\ req[w].intent = None

\* the table of the claim
RowOf(intent) ==
    CASE intent \in {"roast", "general"}      -> "grok"
      [] intent \in {"advice", "sensitive"}   -> "claude"
      [] intent \in {"categorize", "receipt"} -> "gemini"

AdapterCalls(st) == SelectSeq(st, LAMBDA x : x \in {"grok", "claude", "gemini"})

\* C4: every intent a request gets is one of the six, and a request that was
\* dispatched called exactly one adapter, the one of its intent's row: roast,
\* general -> grok; advice, sensitive -> claude; categorize, receipt -> gemini.
C4_Routing ==
    \A w \in Workers :
        /\ req[w].intent # None => req[w].intent \in Intents
        /\ req[w].reply = None => AdapterCalls(req[w].steps) = <<>>
        /\ req[w].reply # None => AdapterCalls(req[w].steps) = <<RowOf(req[w].intent)>>

\* a sensitive message answered by claude
C4_Witness ==
    \E w \in Workers :
        /\ req[w].pc = "done" /\ req[w].intent = "sensitive"
        /\ req[w].reply = "ok"
        /\ AdapterCalls(req[w].steps) = <<"claude">>
        /\ req[w].response.model = "claude-sonnet-4-20250514"

FallbackTexts == {"fallback_roast", "fallback_claude", "fallback_gemini", "fallback_chat"}

\* C5: when the chosen adapter's call fails, no other adapter is called for the
\* request, and what comes back is a locally produced fallback text.
C5_NoFailover ==
    \A w \in Workers :
        req[w].reply \in {"http_error", "malformed"}
        => /\ AdapterCalls(req[w].steps) = <<INTENT_MODEL_MAP(req[w].intent)>>
           /\ req[w].response.content \in FallbackTexts
           /\ req[w].response.input_tokens = 0 /\ req[w].response.output_tokens = 0

\* the roast backend failed and the request ended with the roast fallback
C5_Witness ==
    \E w \in Workers :
        /\ req[w].pc = "done" /\ req[w].reply = "http_error"
        /\ req[w].response.model = "fallback"
        /\ AdapterCalls(req[w].steps) = <<"grok">>

\* C6 as stated: every ledger row written for a routed chat request carries the
\* cost p_in*(input - cached) + p_cached*cached + p_out*output of the price row
\* of the model that answered, which is the cost reported in the response.
C6_LedgerCostIsResponseCost ==
    \A w \in Workers :
        \A i \in DOMAIN req[w].logged :
            LET r == req[w].response
                row == PriceRow(r.model)
            IN  /\ req[w].logged[i].cost =
                     ((r.input_tokens - r.cached_tokens) \div 1000) * row.input
                     + (r.cached_tokens \div 1000) * row.cached
                     + (r.output_tokens \div 1000) * row.output
                /\ req[w].logged[i].cost = r.cost

AdapterFailed(w) == req[w].reply \in {"http_error", "malformed"}

InSeq(x, st) == \E i \in DOMAIN st : st[i] = x

\* C8 as stated: a request classified by the remote classifier has one ledger
\* row for the classification call besides the row of the answering model.
C8_ClassifierCallIsBilled ==
    \A w \in Workers :
        (req[w].pc = "done" /\ InSeq("classifier", req[w].steps))
        => Len(req[w].logged) = 1 + (IF ShouldLog(req[w].tracker) THEN 1 ELSE 0)

\* C9 as stated: every request the guard admitted ends with a reply text; only
\* the three refusals end a request otherwise.
C9_AdmittedGetsReply ==
    \A w \in Workers :
        (req[w].pc \in Terminal /\ req[w].outcome \notin RefusalKinds)
        => /\ req[w].pc = "done" /\ req[w].outcome = "ok"
           /\ req[w].response.content # None

\* the TTL of the layer was added to the clock when the entry was stored
StoredBy(entry, key) ==
    entry # NoEntry => (entry.expiry - LayerTTL(key[2])) \in 0..now

\* C10: a _get never returns a value whose stored expiry is <= the time of the
\* call; a static entry expires STATIC_TTL and a slow entry SLOW_TTL after the
\* _set that wrote it; a _get on the memory cache that finds an expired entry
\* returns nothing and leaves the key absent (specification SpecCache).
C10_NoStaleRead ==
    /\ lastGet.value # None
         => /\ lastGet.found # NoEntry
            /\ lastGet.value = lastGet.found.value
            /\ lastGet.found.expiry > lastGet.at
    /\ (lastGet.backend = "memory" /\ lastGet.found # NoEntry
          /\ lastGet.found.expiry <= lastGet.at)
         => (lastGet.value = None /\ lastGet.left = NoEntry
               /\ memory_cache[lastGet.key] = NoEntry)
    /\ \A key \in CacheKeys :
         StoredBy(redis_store[key], key) /\ StoredBy(memory_cache[key], key)

\* a _get on the memory cache made exactly at the expiry of the slow entry
C10_Witness ==
    /\ lastGet.backend = "memory"
    /\ lastGet.key = <<"u1", "slow">>
    /\ lastGet.found # NoEntry
    /\ lastGet.found.expiry = lastGet.at
    /\ lastGet.value = None

\* C11 as stated: a _get of a key made before the TTL of the last _set of the
\* key has elapsed, with no _set or _delete of the key in between, returns the
\* value that _set stored (specification SpecCache).
C11_SetThenGet ==
    (lastGet.key # None /\ written[lastGet.key] # NoEntry
        /\ lastGet.at < written[lastGet.key].expiry)
    => lastGet.value = written[lastGet.key].value

\* C12 as stated: the static snapshot a context build uses is the projection
\* of the profile the request read, so a build started after a completed
\* profile mutation never uses the snapshot cached before the mutation.
C12_BuildSeesUpdatedProfile ==
    \A w \in Workers :
        (req[w].static # None /\ req[w].profile = profile[req[w].user])
        => req[w].static = req[w].profile

\* C13 as stated: a chat request whose user has tokensUsed + 3 x estimated
\* input tokens > MAX_TOKENS_PER_DAY is refused by the guard, so no request in
\* that case gets past token_limit_check.
C13_ForwardLookingRefusal ==
    \A w \in Workers :
        req[w].pc = "get_profile"
        => TotalTokens(req[w].user) + 3 * estimate_tokens(MessageChars(req[w].message))
              <= MAX_TOKENS_PER_DAY

\* the arrivals of the user admitted before the last check
AdmittedBeforeLastCheck ==
    LET a == admitted[lastCheck.user]
    IN  IF lastCheck.result = "admit" THEN SubSeq(a, 1, Len(a) - 1) ELSE a

\* C14: the last rate_limit_check refused if and only if at least
\* MAX_REQUESTS_PER_MINUTE of the user's own admitted arrivals were newer than
\* now - 60; a refused check added no timestamp; and a check made 60 s or more
\* after the oldest timestamp of the user's list was admitted (specification
\* SpecRate).
C14_RefusesIffWindowFull ==
    lastCheck.user # None
    => LET u      == lastCheck.user
           prior  == AdmittedBeforeLastCheck
           recent == {i \in DOMAIN prior : prior[i] > lastCheck.at - WINDOW_SECONDS}
       IN  /\ (lastCheck.result = "refuse")
                 <=> (Cardinality(recent) >= MAX_REQUESTS_PER_MINUTE)
           /\ lastCheck.result = "refuse"
                 => user_requests[u] =
                      SelectSeq(lastCheck.before,
                                LAMBDA x : x > lastCheck.at - WINDOW_SECONDS)
           /\ (lastCheck.before # <<>>
                 /\ lastCheck.at >= lastCheck.before[1] + WINDOW_SECONDS)
                 => lastCheck.result = "admit"

\* the window was full and the check came exactly 60 s after its oldest
\* timestamp, while the other user had requests of their own
C14_Witness ==
    /\ lastCheck.result = "admit"
    /\ Len(lastCheck.before) = MAX_REQUESTS_PER_MINUTE
    /\ lastCheck.at = lastCheck.before[1] + WINDOW_SECONDS
    /\ \E v \in Users \ {lastCheck.user} : user_requests[v] # <<>>

\* C15: when the remote classifier call fails the request is classified as
\* roast with confidence 0.50 and goes on; if it is dispatched, it is
\* dispatched on the roast adapter, and a request that ends in an error did so
\* at the ledger write, not at the classifier.
C15_ClassifierFailureIsRoast ==
    \A w \in Workers :
        req[w].classifier = "http_error"
        => /\ req[w].intent = "roast" /\ req[w].confidence = 50
           /\ req[w].pc # "classify"
           /\ req[w].reply # None => AdapterCalls(req[w].steps) = <<"grok">>
           /\ req[w].pc = "failed"
                => req[w].steps[Len(req[w].steps)] = "log_api_call"

\* the classifier call failed and the roast adapter answered the request
C15_Witness ==
    \E w \in Workers :
        /\ req[w].classifier = "http_error"
        /\ req[w].pc = "done" /\ req[w].reply = "ok"
        /\ req[w].response.model = "grok-4-fast"

\* C16 as stated: the remote classifier is called exactly for a message that
\* is non-empty after trimming and matches no local rule; a message matching a
\* local rule gets that rule's intent locally with confidence 0.85, and an empty
\* or whitespace-only message is decided locally as general with confidence
\* 0.5; a local decision makes no outbound call.
C16_RemoteOnlyWhenNeeded ==
    \A w \in Workers :
        req[w].classifier # None
        => LET m == req[w].message
               rule == _local_intent_heuristics(m)
           IN  /\ InSeq("classifier", req[w].steps)
                    <=> ("empty" \notin m /\ rule = None)
               /\ rule # None
                    => (req[w].classifier = "local" /\ req[w].intent = rule
                          /\ req[w].confidence = 85)
               /\ "empty" \in m
                    => (req[w].classifier = "local" /\ req[w].intent = "general"
                          /\ req[w].confidence = 50)

\* C17 as stated: once the ledger write for a request's usage event was
\* attempted, whether it succeeded or failed, the request ends with the model's
\* response that was already computed.
C17_LedgerFailureKeepsResponse ==
    \A w \in Workers :
        (req[w].steps # <<>> /\ req[w].steps[Len(req[w].steps)] = "log_api_call")
        => /\ req[w].pc = "done" /\ req[w].outcome = "ok"
           /\ req[w].response.content = "text"

\* the counts of the last tracker.record of the block, zero when none was made
LastRecorded(w) ==
    IF req[w].recorded = <<>> THEN [input_tokens |-> 0, output_tokens |-> 0]
    ELSE req[w].recorded[Len(req[w].recorded)]

LogCalls(w) == SelectSeq(req[w].steps, LAMBDA x : x = "log_api_call")

\* C18: a block that is left after recording a positive input or output count
\* calls log_api_call exactly once, and the row written carries the counts of
\* the last record; a block left with both counts zero calls it not at all and
\* writes no row (specification SpecTracker).
C18_OneEventOnExit ==
    \A w \in Workers :
        req[w].pc \in {"done", "failed"}
        => LET last == LastRecorded(w)
           IN  IF last.input_tokens > 0 \/ last.output_tokens > 0
               THEN /\ Len(LogCalls(w)) = 1
                    /\ req[w].pc = "done"
                         => (/\ Len(req[w].logged) = 1
                             /\ req[w].logged[1].input_tokens = last.input_tokens
                             /\ req[w].logged[1].output_tokens = last.output_tokens
                             /\ req[w].logged[1].user_id = req[w].user
                             /\ api_usage # <<>>
                             /\ api_usage[Len(api_usage)] = req[w].logged[1])
                    /\ req[w].pc = "failed" => req[w].logged = <<>>
               ELSE /\ LogCalls(w) = <<>> /\ req[w].logged = <<>>
                    /\ req[w].pc = "done"

\* two records were made in the block and the row carries the second
C18_Witness ==
    \E w \in Workers :
        /\ req[w].pc = "done"
        /\ Len(req[w].recorded) = 2
        /\ req[w].recorded[1].input_tokens = 2000
        /\ req[w].recorded[2].input_tokens = 1000
        /\ Len(req[w].logged) = 1
        /\ req[w].logged[1].input_tokens = 1000

\* C19 as stated: the list truncate_to_budget returns counts at most
\* max_tokens tokens, and a leading system message of the input is the first
\* element of the result (specification SpecTruncate).
C19_TruncateFitsBudget ==
    call.pc = "returned"
    => /\ count_message_tokens(call.result) <= call.max_tokens
       /\ (call.messages # <<>> /\ call.messages[1].role = "system")
            => (call.result # <<>> /\ call.result[1] = call.messages[1])

\* the time the request has been cancelled for: until route's return, or until
\* now while route has not returned
CancelledFor ==
    (IF call.pc \in Returned THEN call.returnedAt ELSE call.clock) - call.cancelAt

\* C20 as stated: once the request is cancelled, route returns within
\* T_cancel_max = 200 ms, and no outbound call (classifier, model adapter,
\* shared cache) is issued for the request after the cancellation
\* (specification SpecCancel).
C20_CancelIsPrompt ==
    call.cancel
    => /\ CancelledFor <= 200
       /\ \A i \in DOMAIN call.outbound : ~call.outbound[i].after_cancel

\* the unexpired timestamps of user u's rate window
Unexpired(u) ==
    {i \in DOMAIN user_requests[u] : user_requests[u][i] > now - WINDOW_SECONDS}

\* this step, a request arrives at worker w and rate_limit_check runs for it
Arrival(w) ==
    /\ req[w].pc \in {"idle"} \cup Terminal
    /\ req'[w].steps = <<"rate_limit_check">>

\* C21: the refusal kind is decided in the order rate, token, cost.  A request
\* arriving at a full rate window is refused RateExceeded and token_limit_check
\* is not evaluated for it; otherwise it is refused TokenBudgetExceeded when the
\* token total is >= MAX_TOKENS_PER_DAY, otherwise CostBudgetExceeded when the
\* cost sum is >= MAX_COST_PER_DAY, otherwise it is admitted.
C21_FirstRefusalWins ==
    [][\A w \in Workers :
         /\ Arrival(w) =>
              IF Cardinality(Unexpired(req'[w].user)) >= MAX_REQUESTS_PER_MINUTE
              THEN req'[w].pc = "refused" /\ req'[w].outcome = "RateExceeded"
              ELSE req'[w].pc = "token_limit_check" /\ req'[w].outcome = None
         /\ TokenDecision(w) =>
              /\ req[w].steps = <<"rate_limit_check">>
              /\ req'[w].steps = <<"rate_limit_check", "token_limit_check">>
              /\ IF TotalTokens(req[w].user) >= MAX_TOKENS_PER_DAY
                 THEN req'[w].pc = "refused" /\ req'[w].outcome = "TokenBudgetExceeded"
                 ELSE IF SumCost(req[w].user) >= MAX_COST_PER_DAY
                 THEN req'[w].pc = "refused" /\ req'[w].outcome = "CostBudgetExceeded"
                 ELSE req'[w].pc # "refused" /\ req'[w].outcome = None]_vars

\* a request arrived while the rate window was full and the token total was
\* over its ceiling, and was refused for the rate alone
C21_Witness ==
    \E w \in Workers :
        /\ req[w].pc = "refused" /\ req[w].outcome = "RateExceeded"
        /\ req[w].steps = <<"rate_limit_check">>
        /\ Cardinality(Unexpired(req[w].user)) >= MAX_REQUESTS_PER_MINUTE
        /\ TotalTokens(req[w].user) >= MAX_TOKENS_PER_DAY

\* C22 as stated: a request the guard refuses, with any of the three kinds,
\* leaves the ledger, the caches and the user's unexpired rate-window
\* timestamps as they were before the request; a request refused for its token
\* or cost budget adds no arrival timestamp to the window.
C22_RefusalChangesNothing ==
    [][\A w \in Workers :
         ((Arrival(w) \/ TokenDecision(w)) /\ req'[w].pc = "refused")
         => /\ api_usage' = api_usage
            /\ redis_store' = redis_store /\ memory_cache' = memory_cache
            /\ CleanOld(user_requests'[req'[w].user], now') = req'[w].window]_vars

\* C23 as stated: check_budget_available reports no budget exactly when
\* tokensUsed + 3 x estimated input tokens > MAX_TOKENS_PER_DAY, so a request
\* that brings the sum to exactly MAX_TOKENS_PER_DAY is allowed (specification
\* SpecBudget).
C23_NoBudgetIffOver ==
    call.pc = "budget_returned"
    => (~call.available
          <=> TotalTokens(call.user_id) + 3 * call.estimated_input_tokens
                 > MAX_TOKENS_PER_DAY)

\* C24 as stated: fresh input is charged as max(0, input - cached), so for all
\* non-negative counts, cached > input included, the cost is non-negative and
\* at least cached * p_cached + output * p_out (specification SpecCost; prices
\* per million tokens, costs in micro-dollars).
C24_CostAtLeastCachedAndOutput ==
    call.pc = "cost_returned"
    => /\ call.cost >= 0
       /\ call.cost >= (call.cached_tokens \div 1000) * PriceRow(call.model).cached
                       + (call.output_tokens \div 1000) * PriceRow(call.model).output

\* the seven rules of the spec, in order: the trigger that matches and the
\* intent it gives
SpecRules ==
    << <<"roast_word", "roast">>, <<"greeting", "roast">>, <<"advice", "advice">>,
       <<"category", "categorize">>, <<"receipt", "receipt">>,
       <<"complaint", "sensitive">>, <<"settings", "sensitive">> >>

\* the rules with the advice rule matching "help me" and "what do you think
\* about buying" as well
CodeRules ==
    << <<{"roast_word"}, "roast">>, <<{"greeting"}, "roast">>,
       <<{"advice", "help_me"}, "advice">>, <<{"category"}, "categorize">>,
       <<{"receipt"}, "receipt">>, <<{"complaint"}, "sensitive">>,
       <<{"settings"}, "sensitive">> >>

\* C25 as stated: the local classifier returns the intent of the first rule, in
\* the order of the spec's seven rules, whose listed trigger the message holds,
\* and decides locally if and only if some listed trigger matches
\* (specification SpecHeuristics).
C25_FirstListedRule ==
    call.pc = "heuristics_returned"
    => LET matching == {i \in DOMAIN SpecRules : SpecRules[i][1] \in call.message}
       IN  IF matching = {} THEN call.local_intent = None
           ELSE \E i \in matching :
                  /\ \A j \in matching : i <= j
                  /\ call.local_intent = SpecRules[i][2]

\* C25 amended: the same, with the Advice rule matching "help me" and "what do
\* you think about buying" besides its ten listed triggers.
C25_FirstRuleOfTheCode ==
    call.pc = "heuristics_returned"
    => LET matching == {i \in DOMAIN CodeRules : CodeRules[i][1] \cap call.message # {}}
       IN  IF matching = {} THEN call.local_intent = None
           ELSE \E i \in matching :
                  /\ \A j \in matching : i <= j
                  /\ call.local_intent = CodeRules[i][2]

\* a message holding "help me" and triggers of the Categorize and Sensitive
\* rules was classified by the first rule that matches, Advice
C25_Witness ==
    /\ call.pc = "heuristics_returned"
    /\ call.message = {"help_me", "category", "complaint"}
    /\ call.local_intent = "advice"

\* C26 as stated: a _get during which the shared backend raised reports a miss,
\* no value is returned for the key (specification SpecCache; with a Redis
\* client configured, a _get answered by the memory cache is one whose Redis
\* call raised).
C26_BackendErrorIsMiss ==
    (lastGet.key # None /\ redis_client /\ lastGet.backend = "memory")
    => lastGet.value = None

\* the place of a step in the order Admit (rate check, token check), Classify
\* (or the settings command handled in its place), Assemble, Invoke, Record
StepRank(step) ==
    CASE step = "rate_limit_check"                                 -> 1
      [] step = "token_limit_check"                                -> 2
      [] step \in {"classify_local", "classifier", "update_user_profile"} -> 3
      [] step = "build"                                            -> 4
      [] step \in {"grok", "claude", "gemini"}                     -> 5
      [] step = "log_api_call"                                     -> 6

\* C27: within one request the steps occur strictly in the order Admit,
\* Classify, Assemble context, Invoke adapter, Record usage: each step comes
\* right after the step before it in that order, none is repeated, and the
\* usage is recorded (tracker.record, the ledger row) only after the adapter
\* call.
C27_StepsInOrder ==
    \A w \in Workers :
        LET st == req[w].steps
        IN  /\ \A j \in DOMAIN st : StepRank(st[j]) = j
            /\ (req[w].recorded # <<>> \/ req[w].logged # <<>>)
                 => (Len(st) >= 5 /\ StepRank(st[5]) = 5)

\* a request went through all five steps, classified by the remote classifier
\* and answered by Claude
C27_Witness ==
    \E w \in Workers :
        /\ req[w].pc = "done"
        /\ req[w].steps = <<"rate_limit_check", "token_limit_check", "classifier",
                            "build", "claude", "log_api_call">>
        /\ req[w].logged # <<>>

\* the unexpired values the two stores hold under a key
HeldValues(key) ==
    {v \in {RedisGet(redis_store, key, now),
            IF MemLive(memory_cache[key], now) THEN memory_cache[key].value ELSE None} :
        v # None}

\* C28 as stated: when build_user_context has returned for a user, the static
\* key holds an unexpired entry equal to the static snapshot the build used,
\* and the slow key holds an unexpired entry as well, also when life_context is
\* absent and the slow snapshot is the defaults.
C28_BuildPopulatesBothTiers ==
    \A w \in Workers :
        req[w].pc = "invoke"
        => /\ req[w].static \in HeldValues(_cache_key(req[w].user, "static"))
           /\ HeldValues(_cache_key(req[w].user, "slow")) # {}

\* C29 as stated: under any interleaving of concurrent requests of one user,
\* once a profile update and its static-tier invalidation have both completed,
\* the static tier holds no snapshot projected from the profile as it was
\* before the update (specification SpecConcurrent, where the one update sets
\* the mode the profile keeps from then on).
C29_NoStaleSnapshotAfterInvalidation ==
    \A w \in Workers :
        (req[w].pc = "done" /\ "command" \in req[w].message)
        => \A v \in HeldValues(_cache_key(req[w].user, "static")) :
               v = profile[req[w].user]

\* the usage of one request
SingleRequestTokens ==
    LET r == CHOOSE r \in ConcurrentReplies : TRUE
    IN  r.usage.input_tokens + r.usage.output_tokens

\* C30 as stated: under any interleaving of concurrent requests of one user,
\* the user's token total of the day in the ledger never exceeds
\* MAX_TOKENS_PER_DAY by more than the usage of a single request
\* (specification SpecConcurrent).
C30_OvershootAtMostOneRequest ==
    \A u \in Users : TotalTokens(u) <= MAX_TOKENS_PER_DAY + SingleRequestTokens

====
